---- MODULE Spec2Model ----
(***************************************************************************)
(* A model of the runtime hashmap of src/src/runtime/hashmap.go: the       *)
(* bucket heap, the hashmap header, one iterator, and the public           *)
(* operations make / set / get / delete / clear / len / next, with growth  *)
(* (hashmapGrow) inside set.                                               *)
(*                                                                         *)
(* Memory is a heap of buckets addressed 1..Len(heap); NULL is 0.  The     *)
(* primary bucket array of a table is a run of consecutive addresses       *)
(* starting at m.buckets; an overflow bucket is a single address.          *)
(* Nothing is ever freed: an array abandoned by growth stays readable,     *)
(* which is what an iterator that started before the growth relies on.     *)
(*                                                                         *)
(* A key is a number in 0..NKeys-1 standing for one byte pattern of        *)
(* keySize bytes; a value is a number in 0..NVals-1; 0 is the all-zero     *)
(* byte pattern in both.                                                   *)
(***************************************************************************)
EXTENDS Integers, Sequences, FiniteSets, TLC

\* ---------------------------------------------------------------- bounds
NKeys == 9            \* key byte patterns 0..NKeys-1
NVals == 2            \* value byte patterns 0..NVals-1
NSeeds == 2           \* outcomes of fastrand() 0..NSeeds-1
MaxOps == 2           \* public calls made after the initial fill
MaxIterOps == 1       \* writes made during a range loop
MaxWriteOps == 2      \* writes made during a range loop over a nearly full table
MaxRevisitOps == 3    \* writes made during a range loop over a small table
MaxFields == 2        \* elements of an array key, fields of a struct key
MaxHashOps == 1       \* interface operations called with a boxed key of any kind

\* ------------------------------------------------------ program constants
SlotsPerBucket == 8   \* tophash [8]uint8
PtrBits == 16         \* unsafe.Sizeof(uintptr(0))*8 on a 16-bit target
LoadNum == 6          \* uintptr(6) << bucketBits
TopShift == 24        \* hash >> 24

NULL == 0

Keys == 0 .. (NKeys - 1)
Vals == 0 .. (NVals - 1)
Seeds == 0 .. (NSeeds - 1)
Slots == 0 .. (SlotsPerBucket - 1)

Pow2(n) == 2 ^ n
WordMod == Pow2(PtrBits)

\* hashmapAlgorithm
hashmapAlgorithmBinary == "Binary"
hashmapAlgorithmString == "String"
hashmapAlgorithmInterface == "Interface"
Algs == {hashmapAlgorithmBinary, hashmapAlgorithmString, hashmapAlgorithmInterface}

\* Three byte patterns that the Interface discipline treats specially when
\* the dynamic type is a float: +0.0 (all-zero bits), -0.0 (sign bit only)
\* and a NaN.  Under the Binary and String disciplines they are plain keys.
PosZero == 0
NegZero == 1
NaN == 2

\* ------------------------------------------------------- hash and equality
\* hash32(ptr, n, seed): the runtime's 32-bit byte hash.  Seed 0 sends every
\* key to bucket 0 (low bits 0); other seeds spread the keys.  The top byte
\* is 0, 1 or 2, so the tophash tags 1 (from 0 and from 1) and 2 occur; the
\* low 24 bits are b * seed, so every value is a uint32.
hash32(b, seed) ==
    (((b + seed) % 3) * Pow2(TopShift)) + ((b * seed) % Pow2(TopShift))

\* Mutant: the bit pattern of -0 is hashed as it is.
hashmapFloatHash_Raw(b, seed) == hash32(b, seed)

\* hashmapFloat32Hash / hashmapFloat64Hash: -0 is hashed as +0.
hashmapFloatHash(b, seed) ==
    LET f == IF b = NegZero THEN PosZero ELSE b
    IN  hash32(f, seed)

\* a ^ b on unsigned words.
RECURSIVE Xor(_, _)
Xor(a, b) ==
    IF a = 0 THEN b
    ELSE IF b = 0 THEN a
    ELSE ((a + b) % 2) + 2 * Xor(a \div 2, b \div 2)

\* hashmapInterfaceHash of a Complex64 / Complex128 key with the parts re and
\* im: the float hashes of the two parts, xor-ed.
hashmapComplexHash(re, im, seed) ==
    Xor(hashmapFloatHash(re, seed), hashmapFloatHash(im, seed))

\* ------------------------------------------- structural hash of boxed keys
\* The reflect.Kind of a boxed key, one name for each case label of the
\* switch in hashmapInterfaceHash that stands for several widths.
IntKinds == {"Int", "Bool", "Uint", "Uintptr"}
FloatKinds == {"Float32", "Float64"}
ComplexKinds == {"Complex64", "Complex128"}
PointerKinds == {"Chan", "Ptr", "UnsafePointer"}
CompositeKinds == {"Array", "Struct"}
\* The kinds that reach the default case.  (A nil interface, "Nil", has no
\* type and so no kind.)
OtherKinds == {"Slice", "Map", "Func"}
ScalarKinds ==
    IntKinds \cup FloatKinds \cup ComplexKinds \cup PointerKinds \cup {"String"} \cup OtherKinds

NoBoxed == [kind |-> "none", elems |-> <<>>]

\* What the hash returns in place of a value when it ends in runtimePanic.
HashPanic == 0 - 1

\* A boxed value of a scalar kind (its bytes are those of pattern 0), and one
\* of a composite kind with the elements or fields es.
Scalar(k) == [kind |-> k, elems |-> <<>>]
Composite(k, es) == [kind |-> k, elems |-> es]

RECURSIVE hashmapInterfaceHashValue(_, _)
RECURSIVE HashElems(_, _, _, _)

\* The loop over the elements goes on after element i, whose hash is eh,
\* unless that hash ended the program.
HashElemsNext(eh, es, i, seed, acc) ==
    IF eh = HashPanic THEN HashPanic ELSE HashElems(es, i + 1, seed, Xor(acc, eh))

\* The loops of the Array and Struct cases: the xor of the hashes of the
\* elements es[i], es[i+1], ... onto acc.
HashElems(es, i, seed, acc) ==
    IF i > Len(es) THEN acc
    ELSE HashElemsNext(hashmapInterfaceHashValue(es[i], seed), es, i, seed, acc)

\* Mutant: the loop over the fields of a struct starts at the second field.
hashmapInterfaceHashValue_SkipFirstField(x, seed) ==
    CASE x.kind = "Nil" -> 0
      [] x.kind \in IntKinds -> hash32(0, seed)
      [] x.kind \in FloatKinds -> hashmapFloatHash(0, seed)
      [] x.kind \in ComplexKinds -> hashmapComplexHash(0, 0, seed)
      [] x.kind = "String" -> hash32(0, seed)
      [] x.kind \in PointerKinds -> hash32(0, seed)
      [] x.kind = "Array" -> HashElems(x.elems, 1, seed, 0)
      [] x.kind = "Struct" -> HashElems(x.elems, 2, seed, 0)
      [] OTHER -> HashPanic

\* hashmapInterfaceHash on a boxed value of any kind: the hash, or HashPanic
\* when it ends in runtimePanic("comparing un-comparable type").
hashmapInterfaceHashValue(x, seed) ==
    CASE x.kind = "Nil" -> 0
      [] x.kind \in IntKinds -> hash32(0, seed)
      [] x.kind \in FloatKinds -> hashmapFloatHash(0, seed)
      [] x.kind \in ComplexKinds -> hashmapComplexHash(0, 0, seed)
      [] x.kind = "String" -> hash32(0, seed)
      [] x.kind \in PointerKinds -> hash32(0, seed)
      [] x.kind = "Array" -> HashElems(x.elems, 1, seed, 0)
      [] x.kind = "Struct" -> HashElems(x.elems, 1, seed, 0)
      [] OTHER -> HashPanic

\* hashmapInterfaceHash for the comparable kinds the key patterns stand for.
hashmapInterfaceHash(b, seed) ==
    IF b \in {PosZero, NegZero, NaN} THEN hashmapFloatHash(b, seed)
    ELSE hash32(b, seed)

\* hashmapKeyHashAlg: the hash function bound by make.
keyHash(alg, key, seed) ==
    CASE alg = hashmapAlgorithmBinary -> hash32(key, seed)
      [] alg = hashmapAlgorithmString -> hash32(key, seed)
      [] alg = hashmapAlgorithmInterface -> hashmapInterfaceHash(key, seed)

\* Interface equality (==) on two boxed values: a NaN differs from
\* everything, itself included; -0.0 equals +0.0.
hashmapInterfaceEqual(x, y) ==
    /\ x # NaN
    /\ y # NaN
    /\ (IF x = NegZero THEN PosZero ELSE x) = (IF y = NegZero THEN PosZero ELSE y)

\* hashmapKeyEqualAlg: the equality bound by make.
keyEqual(alg, x, y) ==
    CASE alg = hashmapAlgorithmBinary -> x = y
      [] alg = hashmapAlgorithmString -> x = y
      [] alg = hashmapAlgorithmInterface -> hashmapInterfaceEqual(x, y)

\* ------------------------------------------------------------ bucket heap
ZeroCells == [i \in 1 .. SlotsPerBucket |-> 0]
ZeroBucket == [tophash |-> ZeroCells, next |-> NULL, keys |-> ZeroCells, values |-> ZeroCells]

\* alloc(size, nil) for n buckets: zeroed memory at fresh addresses.
alloc(h, n) == h \o [i \in 1 .. n |-> ZeroBucket]

\* Mutant: the tag is taken from the low byte of the hash.
hashmapTopHash_LowByte(hash) ==
    LET tophash == hash % 256
    IN  IF tophash < 1 THEN tophash + 1 ELSE tophash

hashmapTopHash(hash) ==
    LET tophash == hash \div Pow2(TopShift)
    IN  IF tophash < 1 THEN tophash + 1 ELSE tophash

\* Mutant: growth is allowed one step past the ceiling.
hashmapHasSpaceToGrow_PastCeiling(bucketBits) == bucketBits <= PtrBits - 2

hashmapHasSpaceToGrow(bucketBits) == bucketBits <= PtrBits - 3

hashmapOverLoadFactor(n, bucketBits) ==
    LET max == (LoadNum * Pow2(bucketBits)) % WordMod
    IN  n > max

hashmapBucketAddr(buckets, n) == buckets + n

hashmapBucketAddrForHash(m, hash) ==
    LET numBuckets == Pow2(m.bucketBits) % WordMod
        bucketNumber == (hash % WordMod) % numBuckets
    IN  hashmapBucketAddr(m.buckets, bucketNumber)

RECURSIVE MakeBits(_, _)

\* Mutant: the loop also goes on when the hint is exactly the maximum load.
MakeBits_AtLoad(bucketBits, sizeHint) ==
    IF hashmapHasSpaceToGrow(bucketBits) /\ hashmapOverLoadFactor(sizeHint + 1, bucketBits)
    THEN MakeBits((bucketBits + 1) % 256, sizeHint)
    ELSE bucketBits

\* The loop of hashmapMake that chooses bucketBits.
MakeBits(bucketBits, sizeHint) ==
    IF hashmapHasSpaceToGrow(bucketBits) /\ hashmapOverLoadFactor(sizeHint, bucketBits)
    THEN MakeBits((bucketBits + 1) % 256, sizeHint)
    ELSE bucketBits

\* hashmapMake: the new header and the heap holding its zeroed bucket array.
hashmapMake(h, sizeHint, alg, seed) ==
    LET bucketBits == MakeBits(0, sizeHint)
    IN  [heap |-> alloc(h, Pow2(bucketBits)),
         m |-> [buckets |-> Len(h) + 1, seed |-> seed, count |-> 0,
                bucketBits |-> bucketBits, alg |-> alg]]

\* The header a nil map pointer stands in front of: never read by the code.
NoMap == [buckets |-> NULL, seed |-> 0, count |-> 0, bucketBits |-> 0,
          alg |-> hashmapAlgorithmBinary]

\* ---------------------------------------------------------------- lookup
\* The scan loop of hashmapGet from slot i of bucket: found, and the value
\* buffer after the call.
RECURSIVE GetScan(_, _, _, _, _, _)
GetScan(h, m, key, tophash, bucket, i) ==
    IF bucket = NULL THEN [found |-> FALSE, value |-> 0]
    ELSE IF i >= SlotsPerBucket THEN GetScan(h, m, key, tophash, h[bucket].next, 0)
    ELSE IF h[bucket].tophash[i + 1] = tophash /\ keyEqual(m.alg, key, h[bucket].keys[i + 1])
         THEN [found |-> TRUE, value |-> h[bucket].values[i + 1]]
         ELSE GetScan(h, m, key, tophash, bucket, i + 1)

\* hashmapGet: value is the caller's buffer after the call (vb before it).
hashmapGet(h, mp, m, key, vb, hash) ==
    IF mp = NULL THEN [found |-> FALSE, value |-> 0]
    ELSE GetScan(h, m, key, hashmapTopHash(hash), hashmapBucketAddrForHash(m, hash), 0)

\* Mutant: the nil branch returns without zeroing the value buffer.
hashmapAlgGet_NoZero(h, mp, m, alg, key, vb) ==
    IF mp = NULL THEN [found |-> FALSE, value |-> vb]
    ELSE hashmapGet(h, mp, m, key, vb, keyHash(alg, key, m.seed))

\* hashmapBinaryGet / hashmapStringGet / hashmapInterfaceGet.
hashmapAlgGet(h, mp, m, alg, key, vb) ==
    IF mp = NULL THEN [found |-> FALSE, value |-> 0]
    ELSE hashmapGet(h, mp, m, key, vb, keyHash(alg, key, m.seed))

hashmapLen(mp, m) == IF mp = NULL THEN 0 ELSE m.count

\* -------------------------------------------------------------- iteration
ZeroIterator == [buckets |-> NULL, numBuckets |-> 0, bucketNumber |-> 0,
                 bucket |-> NULL, bucketIndex |-> 0]

\* it.bucketIndex++
NextSlot(it) == [it EXCEPT !.bucketIndex = (@ + 1) % 256]

RECURSIVE NextLoop(_, _, _, _, _)

\* Mutant: a key that is no longer in the map is yielded all the same.
NextLookedUp_YieldMissing(h, m, it, key, g) ==
    [ok |-> TRUE, it |-> it, key |-> key, value |-> g.value]

\* The iterator's view is an old array: g is what hashmapGet returned for key.
NextLookedUp(h, m, it, key, g) ==
    IF g.found THEN [ok |-> TRUE, it |-> it, key |-> key, value |-> g.value]
    ELSE NextLoop(h, m, it, key, g.value)

\* Mutant: the value is always copied from the slot of the iterator's array,
\* also when the map has grown since.
NextAtSlot_SnapshotValue(h, m, it, kb, vb) ==
    IF h[it.bucket].tophash[it.bucketIndex + 1] = 0
    THEN NextLoop(h, m, NextSlot(it), kb, vb)
    ELSE [ok |-> TRUE, it |-> NextSlot(it),
          key |-> h[it.bucket].keys[it.bucketIndex + 1],
          value |-> h[it.bucket].values[it.bucketIndex + 1]]

\* The part of the loop body of hashmapNext after the iterator has a bucket:
\* it.bucket is not nil and it.bucketIndex < 8.
NextAtSlot(h, m, it, kb, vb) ==
    IF h[it.bucket].tophash[it.bucketIndex + 1] = 0
    THEN NextLoop(h, m, NextSlot(it), kb, vb)
    ELSE IF it.buckets = m.buckets
    THEN [ok |-> TRUE, it |-> NextSlot(it),
          key |-> h[it.bucket].keys[it.bucketIndex + 1],
          value |-> h[it.bucket].values[it.bucketIndex + 1]]
    ELSE NextLookedUp(h, m, NextSlot(it), h[it.bucket].keys[it.bucketIndex + 1],
                      hashmapGet(h, 1, m, h[it.bucket].keys[it.bucketIndex + 1], vb,
                                 keyHash(m.alg, h[it.bucket].keys[it.bucketIndex + 1], m.seed)))

\* Mutant: at the end of a bucket the overflow chain is not followed.
NextInChain_SkipOverflow(h, it) ==
    IF it.bucketIndex >= SlotsPerBucket
    THEN [it EXCEPT !.bucketIndex = 0, !.bucket = NULL]
    ELSE it

\* The iterator after the end-of-bucket step: the next bucket of the chain.
NextInChain(h, it) ==
    IF it.bucketIndex >= SlotsPerBucket
    THEN [it EXCEPT !.bucketIndex = 0, !.bucket = h[it.bucket].next]
    ELSE it

\* Mutant: the loop ends before the last primary bucket is taken.
NextBucket_StopEarly(h, m, it, kb, vb) ==
    IF it.bucket = NULL
    THEN IF it.bucketNumber + 1 >= it.numBuckets
         THEN [ok |-> FALSE, it |-> it, key |-> kb, value |-> vb]
         ELSE NextAtSlot(h, m,
                         [it EXCEPT !.bucket = hashmapBucketAddr(it.buckets, it.bucketNumber),
                                    !.bucketNumber = (@ + 1) % WordMod],
                         kb, vb)
    ELSE NextAtSlot(h, m, it, kb, vb)

\* The loop body from the point where the end-of-bucket step has been done.
NextBucket(h, m, it, kb, vb) ==
    IF it.bucket = NULL
    THEN IF it.bucketNumber >= it.numBuckets
         THEN [ok |-> FALSE, it |-> it, key |-> kb, value |-> vb]
         ELSE NextAtSlot(h, m,
                         [it EXCEPT !.bucket = hashmapBucketAddr(it.buckets, it.bucketNumber),
                                    !.bucketNumber = (@ + 1) % WordMod],
                         kb, vb)
    ELSE NextAtSlot(h, m, it, kb, vb)

\* The for loop of hashmapNext.
NextLoop(h, m, it, kb, vb) == NextBucket(h, m, NextInChain(h, it), kb, vb)

\* Mutant: when the map's array has changed the iterator starts over on the
\* new array.
NextInit_Restart(m, it) ==
    IF it.buckets = NULL \/ it.buckets # m.buckets
    THEN [ZeroIterator EXCEPT !.buckets = m.buckets,
                              !.numBuckets = Pow2(m.bucketBits) % WordMod]
    ELSE it

\* Mutant: the snapshot is taken again whenever the map's array has changed.
NextInit_Resnapshot(m, it) ==
    IF it.buckets = NULL \/ it.buckets # m.buckets
    THEN [it EXCEPT !.buckets = m.buckets, !.numBuckets = Pow2(m.bucketBits) % WordMod]
    ELSE it

\* The iterator after the initialisation step of hashmapNext.
NextInit(m, it) ==
    IF it.buckets = NULL
    THEN [it EXCEPT !.buckets = m.buckets, !.numBuckets = Pow2(m.bucketBits) % WordMod]
    ELSE it

\* hashmapNext: it, key and value are the iterator and the caller's buffers
\* after the call (kb and vb before it).
hashmapNext(h, mp, m, it, kb, vb) ==
    IF mp = NULL THEN [ok |-> FALSE, it |-> it, key |-> kb, value |-> vb]
    ELSE NextLoop(h, m, NextInit(m, it), kb, vb)

\* ---------------------------------------------------------- insert / update
NoSlot == <<NULL, 0>>

\* Mutant: the new bucket's next pointer is the bucket itself.
hashmapInsertIntoNewBucket_SelfLink(g, key, value, tophash, lastBucket) ==
    [heap |-> [alloc(g.heap, 1) EXCEPT ![Len(g.heap) + 1].keys[1] = key,
                                      ![Len(g.heap) + 1].values[1] = value,
                                      ![Len(g.heap) + 1].tophash[1] = tophash,
                                      ![Len(g.heap) + 1].next = Len(g.heap) + 1,
                                      ![lastBucket].next = Len(g.heap) + 1],
     m |-> [g.m EXCEPT !.count = (@ + 1) % WordMod],
     path |-> "overflow", grows |-> g.grows, midheap |-> g.heap, midm |-> g.m]

\* hashmapInsertIntoNewBucket, linked as the next of lastBucket: a fresh
\* bucket with the entry in slot 0.  g holds the heap, the header and the
\* number of growths done before the write.
hashmapInsertIntoNewBucket(g, key, value, tophash, lastBucket) ==
    [heap |-> [alloc(g.heap, 1) EXCEPT ![Len(g.heap) + 1].keys[1] = key,
                                      ![Len(g.heap) + 1].values[1] = value,
                                      ![Len(g.heap) + 1].tophash[1] = tophash,
                                      ![lastBucket].next = Len(g.heap) + 1],
     m |-> [g.m EXCEPT !.count = (@ + 1) % WordMod],
     path |-> "overflow", grows |-> g.grows, midheap |-> g.heap, midm |-> g.m]

\* Mutant: a write into an empty slot leaves count as it was.
SetInsert_NoCount(g, key, value, tophash, emptySlot, lastBucket) ==
    IF emptySlot = NoSlot
    THEN hashmapInsertIntoNewBucket(g, key, value, tophash, lastBucket)
    ELSE [heap |-> [g.heap EXCEPT ![emptySlot[1]].keys[emptySlot[2] + 1] = key,
                                  ![emptySlot[1]].values[emptySlot[2] + 1] = value,
                                  ![emptySlot[1]].tophash[emptySlot[2] + 1] = tophash],
          m |-> g.m,
          path |-> "empty", grows |-> g.grows, midheap |-> g.heap, midm |-> g.m]

\* The end of hashmapSet, when no equal key was found: into the first empty
\* slot seen, or into a new bucket.
SetInsert(g, key, value, tophash, emptySlot, lastBucket) ==
    IF emptySlot = NoSlot
    THEN hashmapInsertIntoNewBucket(g, key, value, tophash, lastBucket)
    ELSE [heap |-> [g.heap EXCEPT ![emptySlot[1]].keys[emptySlot[2] + 1] = key,
                                  ![emptySlot[1]].values[emptySlot[2] + 1] = value,
                                  ![emptySlot[1]].tophash[emptySlot[2] + 1] = tophash],
          m |-> [g.m EXCEPT !.count = (@ + 1) % WordMod],
          path |-> "empty", grows |-> g.grows, midheap |-> g.heap, midm |-> g.m]

\* Mutant: set remembers the last empty slot it has seen.
SetEmptySlot_Last(h, bucket, i, emptySlot) ==
    IF h[bucket].tophash[i + 1] = 0 THEN <<bucket, i>> ELSE emptySlot

\* The slot set remembers as empty after looking at slot i of bucket.
SetEmptySlot(h, bucket, i, emptySlot) ==
    IF h[bucket].tophash[i + 1] = 0 /\ emptySlot = NoSlot THEN <<bucket, i>> ELSE emptySlot

RECURSIVE SetLoop(_, _, _, _, _, _, _, _)

\* Mutant: overwriting the value of an existing key also increments count.
SetLoop_CountOnUpdate(g, key, value, tophash, bucket, i, emptySlot, lastBucket) ==
    IF bucket = NULL
    THEN SetInsert(g, key, value, tophash, emptySlot, lastBucket)
    ELSE IF i >= SlotsPerBucket
    THEN SetLoop(g, key, value, tophash, g.heap[bucket].next, 0, emptySlot, bucket)
    ELSE IF g.heap[bucket].tophash[i + 1] = tophash
            /\ keyEqual(g.m.alg, key, g.heap[bucket].keys[i + 1])
    THEN [heap |-> [g.heap EXCEPT ![bucket].values[i + 1] = value],
          m |-> [g.m EXCEPT !.count = (@ + 1) % WordMod],
          path |-> "update", grows |-> g.grows, midheap |-> g.heap, midm |-> g.m]
    ELSE SetLoop(g, key, value, tophash, bucket, i + 1,
                 SetEmptySlot(g.heap, bucket, i, emptySlot), lastBucket)

\* The scan loop of hashmapSet from slot i of bucket, and what follows it.
\* The result holds the heap and header after the call, the path taken, the
\* number of growths done, and the heap and header as they were right after
\* the growth step (mid), before the entry was written.
SetLoop(g, key, value, tophash, bucket, i, emptySlot, lastBucket) ==
    IF bucket = NULL
    THEN SetInsert(g, key, value, tophash, emptySlot, lastBucket)
    ELSE IF i >= SlotsPerBucket
    THEN SetLoop(g, key, value, tophash, g.heap[bucket].next, 0, emptySlot, bucket)
    ELSE IF g.heap[bucket].tophash[i + 1] = tophash
            /\ keyEqual(g.m.alg, key, g.heap[bucket].keys[i + 1])
    THEN [heap |-> [g.heap EXCEPT ![bucket].values[i + 1] = value],
          m |-> g.m,
          path |-> "update", grows |-> g.grows, midheap |-> g.heap, midm |-> g.m]
    ELSE SetLoop(g, key, value, tophash, bucket, i + 1,
                 SetEmptySlot(g.heap, bucket, i, emptySlot), lastBucket)

\* hashmapSet from the point where the hash to use is known.
SetHashed(g, key, value, hash) ==
    SetLoop(g, key, value, hashmapTopHash(hash), hashmapBucketAddrForHash(g.m, hash),
            0, NoSlot, NULL)

\* hashmapSet after hashmapGrow: the key is hashed again under the new seed.
SetGrown(g, key, value) == SetHashed(g, key, value, keyHash(g.m.alg, key, g.m.seed))

RECURSIVE hashmapSet(_, _, _, _, _, _)
RECURSIVE hashmapGrow(_, _, _)
RECURSIVE GrowLoop(_, _, _, _, _, _)

\* Mutant: the map already grows when count has reached the maximum load.
hashmapSet_GrowAtLoad(h, m, key, value, hash0, rnd) ==
    IF hashmapHasSpaceToGrow(m.bucketBits) /\ hashmapOverLoadFactor(m.count + 1, m.bucketBits)
    THEN SetGrown(hashmapGrow(h, m, rnd), key, value)
    ELSE SetHashed([heap |-> h, m |-> m, grows |-> 0], key, value, hash0)

\* Mutant: after growing, the key keeps the hash computed under the old seed.
hashmapSet_StaleHash(h, m, key, value, hash0, rnd) ==
    IF hashmapHasSpaceToGrow(m.bucketBits) /\ hashmapOverLoadFactor(m.count, m.bucketBits)
    THEN SetHashed(hashmapGrow(h, m, rnd), key, value, hash0)
    ELSE SetHashed([heap |-> h, m |-> m, grows |-> 0], key, value, hash0)

\* hashmapSet on a non-nil map.  rnd is what fastrand() returns if the map
\* grows.
hashmapSet(h, m, key, value, hash0, rnd) ==
    IF hashmapHasSpaceToGrow(m.bucketBits) /\ hashmapOverLoadFactor(m.count, m.bucketBits)
    THEN SetGrown(hashmapGrow(h, m, rnd), key, value)
    ELSE SetHashed([heap |-> h, m |-> m, grows |-> 0], key, value, hash0)

\* The loop of hashmapGrow goes on with the heap and new header that the set
\* returning s left.
GrowNext(s, m, it, rnd, grows) == GrowLoop(s.heap, m, s.m, it, rnd, grows + s.grows)

\* Mutant: the entries are hashed under the old map's seed.
GrowStep_OldSeed(h, m, n, r, rnd, grows) ==
    IF r.ok
    THEN GrowNext(hashmapSet(h, n, r.key, r.value, keyHash(n.alg, r.key, m.seed), rnd),
                  m, r.it, rnd, grows)
    ELSE [heap |-> h, m |-> n, grows |-> grows]

\* The body of the loop of hashmapGrow: r is what hashmapNext returned.
GrowStep(h, m, n, r, rnd, grows) ==
    IF r.ok
    THEN GrowNext(hashmapSet(h, n, r.key, r.value, keyHash(n.alg, r.key, n.seed), rnd),
                  m, r.it, rnd, grows)
    ELSE [heap |-> h, m |-> n, grows |-> grows]

\* The loop of hashmapGrow: walk the old map m with iterator it and set every
\* entry into the new map n.
GrowLoop(h, m, n, it, rnd, grows) ==
    GrowStep(h, m, n, hashmapNext(h, 1, m, it, 0, 0), rnd, grows)

\* Mutant: the clone of the header keeps the count of the old map.
hashmapGrow_KeepCount(h, m, rnd) ==
    GrowLoop(alloc(h, Pow2((m.bucketBits + 1) % 256) % WordMod), m,
             [m EXCEPT !.seed = rnd,
                       !.bucketBits = (m.bucketBits + 1) % 256,
                       !.buckets = Len(h) + 1],
             ZeroIterator, rnd, 1)

\* hashmapGrow: the header that replaces *m, and the heap with the new array.
\* A growth nested in one of the loop's sets would draw rnd again.
hashmapGrow(h, m, rnd) ==
    GrowLoop(alloc(h, Pow2((m.bucketBits + 1) % 256) % WordMod), m,
             [m EXCEPT !.count = 0, !.seed = rnd,
                       !.bucketBits = (m.bucketBits + 1) % 256,
                       !.buckets = Len(h) + 1],
             ZeroIterator, rnd, 1)

\* ---------------------------------------------------------------- delete
RECURSIVE DeleteLoop(_, _, _, _, _, _)

\* Mutant: the buckets behind the one that held the key are cut off the chain.
DeleteLoop_DropChain(h, m, key, tophash, bucket, i) ==
    IF bucket = NULL THEN [heap |-> h, m |-> m]
    ELSE IF i >= SlotsPerBucket THEN DeleteLoop(h, m, key, tophash, h[bucket].next, 0)
    ELSE IF h[bucket].tophash[i + 1] = tophash /\ keyEqual(m.alg, key, h[bucket].keys[i + 1])
    THEN [heap |-> [h EXCEPT ![bucket].tophash[i + 1] = 0,
                             ![bucket].keys[i + 1] = 0,
                             ![bucket].values[i + 1] = 0,
                             ![bucket].next = NULL],
          m |-> [m EXCEPT !.count = (@ - 1) % WordMod]]
    ELSE DeleteLoop(h, m, key, tophash, bucket, i + 1)

\* Mutant: the slot's key cell is left as it was.
DeleteLoop_KeepKey(h, m, key, tophash, bucket, i) ==
    IF bucket = NULL THEN [heap |-> h, m |-> m]
    ELSE IF i >= SlotsPerBucket THEN DeleteLoop(h, m, key, tophash, h[bucket].next, 0)
    ELSE IF h[bucket].tophash[i + 1] = tophash /\ keyEqual(m.alg, key, h[bucket].keys[i + 1])
    THEN [heap |-> [h EXCEPT ![bucket].tophash[i + 1] = 0,
                             ![bucket].values[i + 1] = 0],
          m |-> [m EXCEPT !.count = (@ - 1) % WordMod]]
    ELSE DeleteLoop(h, m, key, tophash, bucket, i + 1)

\* Mutant: the slot's value is zeroed but its tophash and key are left.
DeleteLoop_KeepTophash(h, m, key, tophash, bucket, i) ==
    IF bucket = NULL THEN [heap |-> h, m |-> m]
    ELSE IF i >= SlotsPerBucket THEN DeleteLoop(h, m, key, tophash, h[bucket].next, 0)
    ELSE IF h[bucket].tophash[i + 1] = tophash /\ keyEqual(m.alg, key, h[bucket].keys[i + 1])
    THEN [heap |-> [h EXCEPT ![bucket].values[i + 1] = 0],
          m |-> [m EXCEPT !.count = (@ - 1) % WordMod]]
    ELSE DeleteLoop(h, m, key, tophash, bucket, i + 1)

\* Mutant: count is decremented whether or not the key was found.
DeleteLoop_AlwaysCount(h, m, key, tophash, bucket, i) ==
    IF bucket = NULL THEN [heap |-> h, m |-> [m EXCEPT !.count = (@ - 1) % WordMod]]
    ELSE IF i >= SlotsPerBucket THEN DeleteLoop(h, m, key, tophash, h[bucket].next, 0)
    ELSE IF h[bucket].tophash[i + 1] = tophash /\ keyEqual(m.alg, key, h[bucket].keys[i + 1])
    THEN [heap |-> [h EXCEPT ![bucket].tophash[i + 1] = 0,
                             ![bucket].keys[i + 1] = 0,
                             ![bucket].values[i + 1] = 0],
          m |-> [m EXCEPT !.count = (@ - 1) % WordMod]]
    ELSE DeleteLoop(h, m, key, tophash, bucket, i + 1)

\* The scan loop of hashmapDelete from slot i of bucket: heap and header
\* after the call.
DeleteLoop(h, m, key, tophash, bucket, i) ==
    IF bucket = NULL THEN [heap |-> h, m |-> m]
    ELSE IF i >= SlotsPerBucket THEN DeleteLoop(h, m, key, tophash, h[bucket].next, 0)
    ELSE IF h[bucket].tophash[i + 1] = tophash /\ keyEqual(m.alg, key, h[bucket].keys[i + 1])
    THEN [heap |-> [h EXCEPT ![bucket].tophash[i + 1] = 0,
                             ![bucket].keys[i + 1] = 0,
                             ![bucket].values[i + 1] = 0],
          m |-> [m EXCEPT !.count = (@ - 1) % WordMod]]
    ELSE DeleteLoop(h, m, key, tophash, bucket, i + 1)

\* hashmapDelete: heap and header after the call.
hashmapDelete(h, mp, m, key, hash) ==
    IF mp = NULL THEN [heap |-> h, m |-> m]
    ELSE DeleteLoop(h, m, key, hashmapTopHash(hash), hashmapBucketAddrForHash(m, hash), 0)

\* hashmapBinaryDelete / hashmapStringDelete / hashmapInterfaceDelete.
hashmapAlgDelete(h, mp, m, alg, key) ==
    IF mp = NULL THEN [heap |-> h, m |-> m]
    ELSE hashmapDelete(h, mp, m, key, keyHash(alg, key, m.seed))

\* ----------------------------------------------------------------- clear
\* Mutant: only the first bucket of a chain is zeroed.
ClearChain_FirstOnly(h, bucket) ==
    IF bucket = NULL THEN h
    ELSE [h EXCEPT ![bucket].tophash = ZeroCells,
                   ![bucket].keys = ZeroCells,
                   ![bucket].values = ZeroCells]

\* The inner loop of hashmapClear: zero the buckets of one chain.
RECURSIVE ClearChain(_, _)
ClearChain(h, bucket) ==
    IF bucket = NULL THEN h
    ELSE ClearChain([h EXCEPT ![bucket].tophash = ZeroCells,
                              ![bucket].keys = ZeroCells,
                              ![bucket].values = ZeroCells],
                    h[bucket].next)

RECURSIVE ClearLoop(_, _, _, _)
ClearLoop(h, m, i, numBuckets) ==
    IF i >= numBuckets THEN h
    ELSE ClearLoop(ClearChain(h, hashmapBucketAddr(m.buckets, i)), m, i + 1, numBuckets)

\* Mutant: the buckets are zeroed but count is left as it was.
hashmapClear_KeepCount(h, mp, m) ==
    IF mp = NULL THEN [heap |-> h, m |-> m]
    ELSE [heap |-> ClearLoop(h, m, 0, Pow2(m.bucketBits) % WordMod), m |-> m]

hashmapClear(h, mp, m) ==
    IF mp = NULL THEN [heap |-> h, m |-> m]
    ELSE [heap |-> ClearLoop(h, m, 0, Pow2(m.bucketBits) % WordMod),
          m |-> [m EXCEPT !.count = 0]]

\* ------------------------------------------------- contents of a table
RECURSIVE ChainBuckets(_, _)
ChainBuckets(h, bucket) ==
    IF bucket = NULL THEN {} ELSE {bucket} \cup ChainBuckets(h, h[bucket].next)

\* Every bucket reachable from the header: primary array and overflow chains.
TableBuckets(h, m) ==
    UNION {ChainBuckets(h, hashmapBucketAddr(m.buckets, i)) : i \in 0 .. (Pow2(m.bucketBits) - 1)}

OccupiedSlots(h, m) ==
    {s \in TableBuckets(h, m) \X Slots : h[s[1]].tophash[s[2] + 1] # 0}

\* How many occupied slots hold key k with value v.
Entries(h, m) ==
    [kv \in Keys \X Vals |->
        Cardinality({s \in OccupiedSlots(h, m) :
                        /\ h[s[1]].keys[s[2] + 1] = kv[1]
                        /\ h[s[1]].values[s[2] + 1] = kv[2]})]

\* What get returns for every key.
Lookup(h, m) ==
    [k \in Keys |-> hashmapAlgGet(h, 1, m, m.alg, k, 0)]

\* ------------------------------------- copying a table through its iterator
RECURSIVE IterAll(_, _, _, _)

\* The body of a range loop over m: r is what hashmapNext returned, acc the
\* pairs yielded before.
IterStep(h, m, r, acc) ==
    IF r.ok THEN IterAll(h, m, r.it, Append(acc, <<r.key, r.value>>)) ELSE acc

\* A whole range loop over m from iterator it: the pairs yielded, in order.
IterAll(h, m, it, acc) == IterStep(h, m, hashmapNext(h, 1, m, it, 0, 0), acc)

RECURSIVE InsertAll(_, _, _, _, _)

\* The copy goes on with the heap and header that the set returning s left.
InsertNext(s, ps, i, rnd) == InsertAll(s.heap, s.m, ps, i, rnd)

\* Set the pairs ps[i], ps[i+1], ... in order into the table hm.
InsertAll(h, hm, ps, i, rnd) ==
    IF i > Len(ps) THEN [heap |-> h, m |-> hm]
    ELSE InsertNext(hashmapSet(h, hm, ps[i][1], ps[i][2],
                               keyHash(hm.alg, ps[i][1], hm.seed), rnd),
                    ps, i + 1, rnd)

\* The pairs ps set into the fresh table mk.
Copied(mk, ps, seed) == InsertAll(mk.heap, mk.m, ps, 1, seed)

\* A fresh table of m's discipline holding every pair a range loop over m
\* yields.
RoundTrip(h, m, seed) ==
    Copied(hashmapMake(<<>>, 0, m.alg, seed), IterAll(h, m, ZeroIterator, <<>>), seed)

\* ------------------------------------------------------------------ state
VARIABLES
    heap,       \* the bucket heap
    mp,         \* the map pointer held by the caller: NULL or 1
    m,          \* the hashmap header mp points to
    alg,        \* the discipline of the map's static type
    it,         \* the hashmapIterator
    panicked,   \* the fatal error the program ended in, if any
    nops,       \* public calls made so far
    last,       \* the last public call and what it returned
    gsnap,      \* contents before and right after the growth in the last set
    abs,        \* key -> value inserted and not deleted since (Absent if none)
    nan,        \* entries inserted under a key that is not equal to itself
    itg         \* what the running iteration has yielded, and what happened during it

vars == <<heap, mp, m, alg, it, panicked, nops, last, gsnap, abs, nan, itg>>

NoPanic == "none"
NilMapPanic == "assignment to entry in nil map"
UncomparablePanic == "comparing un-comparable type"
NilDerefPanic == "nil pointer dereference"

Absent == 0 - 1

\* The key that stands for k's equality class, and whether k equals itself.
Norm(a, k) == IF a = hashmapAlgorithmInterface /\ k = NegZero THEN PosZero ELSE k
SelfEqual(a, k) == keyEqual(a, k, k)

EmptyAbs == [k \in Keys |-> Absent]
LiveKeys == {k \in Keys : abs[k] # Absent}

\* op, key, val: the call (key is the size hint of a make); ok, out: what it returned; path, grows: what a set
\* did; nil: the map was nil; plen: len before the call; rep: the call before
\* was a set of the same key; had: the key was in the map before the call.
NoLast == [op |-> "none", key |-> 0, val |-> 0, ok |-> FALSE, out |-> 0,
           path |-> "", grows |-> 0, nil |-> FALSE, plen |-> 0, rep |-> FALSE,
           had |-> FALSE, boxed |-> NoBoxed]

NoSnap == [pre |-> <<>>, post |-> <<>>, preCount |-> 0, postCount |-> 0,
           preGet |-> <<>>, postGet |-> <<>>, preSeed |-> 0, preBits |-> 0,
           preBuckets |-> NULL]

\* active: hashmapNext has been called; done: it has returned false;
\* yielded: the <<key, value>> pairs it returned; start, startNan: the keys
\* and the not-self-equal entries in the map at the first call; mutated,
\* grew, cleared, deleted, inserted: what the calls made since did; grewAt:
\* how many pairs had been yielded when the map first grew; early: the keys
\* inserted before the map first grew, into the array the iterator walks.
ZeroItg == [active |-> FALSE, done |-> FALSE, grew |-> FALSE, mutated |-> FALSE,
            yielded |-> <<>>, start |-> {}, startNan |-> 0,
            deleted |-> {}, inserted |-> {}, cleared |-> FALSE, grewAt |-> 0,
            early |-> {}]

\* The initial fill: keys 0..n-1 set in order on a table made with a hint.
FillValue(k) == (k + 1) % NVals

RECURSIVE Fill(_, _, _, _, _)

\* The fill goes on with the heap and header that the set returning s left.
FillNext(s, k, n, rnd) == Fill(s.heap, s.m, k, n, rnd)

Fill(h, hm, k, n, rnd) ==
    IF k >= n THEN [heap |-> h, m |-> hm]
    ELSE FillNext(hashmapSet(h, hm, k, FillValue(k), keyHash(hm.alg, k, hm.seed), rnd),
                  k + 1, n, rnd)

FillAbs(a, n) ==
    [c \in Keys |->
        LET ks == {k \in 0 .. (n - 1) : SelfEqual(a, k) /\ Norm(a, k) = c}
        IN  IF ks = {} THEN Absent
            ELSE FillValue(CHOOSE k \in ks : \A j \in ks : j <= k)]

FillNan(a, n) == Cardinality({k \in 0 .. (n - 1) : ~SelfEqual(a, k)})

\* <<size hint, number of keys filled in>>
Fills == {<<0, 0>>, <<0, 3>>, <<0, LoadNum + 1>>, <<LoadNum + 1, SlotsPerBucket>>}
Hints == {0, LoadNum + 1}
\* The String discipline runs the code of the Binary one on these keys, so it
\* starts from the empty tables only.
StartFills(a) == IF a = hashmapAlgorithmString THEN {<<0, 0>>} ELSE Fills

Init ==
    /\ alg \in Algs
    /\ it = ZeroIterator
    /\ panicked = NoPanic
    /\ nops = 0
    /\ last = NoLast
    /\ gsnap = NoSnap
    /\ itg = ZeroItg
    /\ \/ /\ mp = NULL
          /\ m = NoMap
          /\ heap = <<>>
          /\ abs = EmptyAbs
          /\ nan = 0
       \/ \E f \in StartFills(alg), seed \in Seeds :
            LET mk == hashmapMake(<<>>, f[1], alg, seed)
                r == Fill(mk.heap, mk.m, 0, f[2], seed)
            IN  /\ mp = 1
                /\ m = r.m
                /\ heap = r.heap
                /\ abs = FillAbs(alg, f[2])
                /\ nan = FillNan(alg, f[2])

Running == panicked = NoPanic

\* m = make(map[K]V, hint) on a nil map variable.
Make(hint, seed) ==
    /\ Running
    /\ mp = NULL
    /\ LET mk == hashmapMake(heap, hint, alg, seed)
       IN  /\ heap' = mk.heap
           /\ m' = mk.m
    /\ mp' = 1
    /\ last' = [NoLast EXCEPT !.op = "make", !.key = hint]
    /\ abs' = EmptyAbs
    /\ nan' = 0
    /\ gsnap' = NoSnap
    /\ UNCHANGED <<alg, it, panicked, nops, itg>>

WouldGrow == mp # NULL /\ hashmapHasSpaceToGrow(m.bucketBits) /\ hashmapOverLoadFactor(m.count, m.bucketBits)

\* What a set of key that returned r leaves in the state.
SetReturned(r, key, value) ==
    /\ heap' = r.heap
    /\ m' = r.m
    /\ last' = [NoLast EXCEPT !.op = "set", !.key = key, !.val = value,
                              !.ok = TRUE, !.path = r.path, !.grows = r.grows,
                              !.plen = hashmapLen(mp, m),
                              !.rep = (last.op = "set" /\ last.key = key),
                              !.had = (abs[Norm(alg, key)] # Absent)]
    /\ gsnap' = IF r.grows = 0 THEN NoSnap
                ELSE [pre |-> Entries(heap, m), post |-> Entries(r.midheap, r.midm),
                      preCount |-> m.count, postCount |-> r.midm.count,
                      preGet |-> Lookup(heap, m), postGet |-> Lookup(r.midheap, r.midm),
                      preSeed |-> m.seed, preBits |-> m.bucketBits,
                      preBuckets |-> m.buckets]
    /\ IF SelfEqual(alg, key)
       THEN /\ abs' = [abs EXCEPT ![Norm(alg, key)] = value]
            /\ nan' = nan
       ELSE /\ abs' = abs
            /\ nan' = nan + 1
    /\ itg' = IF itg.active
              THEN [itg EXCEPT !.mutated = TRUE,
                               !.grew = @ \/ r.grows > 0,
                               !.grewAt = IF ~itg.grew /\ r.grows > 0
                                          THEN Len(itg.yielded) ELSE @,
                               !.inserted = IF r.path = "update" THEN @
                                            ELSE @ \cup {Norm(alg, key)},
                               !.early = IF r.path = "update" \/ itg.grew \/ r.grows > 0
                                         THEN @ ELSE @ \cup {Norm(alg, key)}]
              ELSE itg
    /\ UNCHANGED <<mp, alg, it, panicked>>

\* m[key] = value.  api "alg" is hashmapBinarySet / hashmapStringSet /
\* hashmapInterfaceSet, which check for nil and compute the hash; api
\* "generic" is hashmapSet called with the hash of key under m's seed, which
\* reads m.bucketBits first.  On a non-nil map the two run the same code.
Set(key, value, rnd) ==
    /\ Running
    /\ nops < MaxOps
    /\ nops' = nops + 1
    /\ IF mp = NULL
       THEN /\ \E api \in {"alg", "generic"} :
                 panicked' = IF api = "alg" THEN NilMapPanic ELSE NilDerefPanic
            /\ last' = [NoLast EXCEPT !.op = "set", !.key = key, !.val = value, !.nil = TRUE]
            /\ UNCHANGED <<heap, mp, m, alg, it, gsnap, abs, nan, itg>>
       ELSE SetReturned(hashmapSet(heap, m, key, value, keyHash(m.alg, key, m.seed), rnd),
                        key, value)

\* delete(m, key)
Delete(key) ==
    /\ Running
    /\ nops < MaxOps
    /\ nops' = nops + 1
    /\ LET r == hashmapAlgDelete(heap, mp, m, alg, key)
       IN  /\ heap' = r.heap
           /\ m' = r.m
    /\ last' = [NoLast EXCEPT !.op = "delete", !.key = key, !.nil = (mp = NULL),
                              !.plen = hashmapLen(mp, m),
                              !.had = (abs[Norm(alg, key)] # Absent)]
    /\ gsnap' = NoSnap
    /\ abs' = IF mp # NULL /\ SelfEqual(alg, key)
              THEN [abs EXCEPT ![Norm(alg, key)] = Absent] ELSE abs
    /\ itg' = IF itg.active
              THEN [itg EXCEPT !.mutated = TRUE,
                               !.deleted = IF SelfEqual(alg, key) THEN @ \cup {Norm(alg, key)} ELSE @]
              ELSE itg
    /\ UNCHANGED <<mp, alg, it, panicked, nan>>

\* clear(m)
Clear ==
    /\ Running
    /\ nops < MaxOps
    /\ nops' = nops + 1
    /\ LET r == hashmapClear(heap, mp, m)
       IN  /\ heap' = r.heap
           /\ m' = r.m
    /\ last' = [NoLast EXCEPT !.op = "clear", !.nil = (mp = NULL),
                              !.plen = hashmapLen(mp, m)]
    /\ gsnap' = NoSnap
    /\ abs' = EmptyAbs
    /\ nan' = 0
    /\ itg' = IF itg.active
              THEN [itg EXCEPT !.mutated = TRUE, !.deleted = @ \cup LiveKeys, !.cleared = TRUE]
              ELSE itg
    /\ UNCHANGED <<mp, alg, it, panicked>>

\* Mutant: the copy between the slot and the value buffer runs the other
\* way, into every slot whose key is equal to key.
Get_CopyIntoSlot(key, vb) ==
    /\ Running
    /\ nops < MaxOps
    /\ nops' = nops + 1
    /\ LET r == hashmapAlgGet(heap, mp, m, alg, key, vb)
       IN  last' = [NoLast EXCEPT !.op = "get", !.key = key,
                                  !.ok = r.found, !.out = r.value, !.nil = (mp = NULL)]
    /\ gsnap' = NoSnap
    /\ heap' = IF mp = NULL THEN heap
               ELSE [b \in 1 .. Len(heap) |->
                       [heap[b] EXCEPT !.values =
                           [i \in 1 .. SlotsPerBucket |->
                               IF /\ b \in TableBuckets(heap, m)
                                  /\ heap[b].tophash[i] # 0
                                  /\ keyEqual(alg, key, heap[b].keys[i])
                               THEN vb ELSE heap[b].values[i]]]]
    /\ UNCHANGED <<mp, m, alg, it, panicked, abs, nan, itg>>

\* v, ok = m[key], into a value buffer that held vb.
Get(key, vb) ==
    /\ Running
    /\ nops < MaxOps
    /\ nops' = nops + 1
    /\ LET r == hashmapAlgGet(heap, mp, m, alg, key, vb)
       IN  last' = [NoLast EXCEPT !.op = "get", !.key = key,
                                  !.ok = r.found, !.out = r.value, !.nil = (mp = NULL)]
    /\ gsnap' = NoSnap
    /\ UNCHANGED <<heap, mp, m, alg, it, panicked, abs, nan, itg>>

\* len(m)
Length ==
    /\ Running
    /\ nops < MaxOps
    /\ nops' = nops + 1
    /\ last' = [NoLast EXCEPT !.op = "len", !.out = hashmapLen(mp, m), !.nil = (mp = NULL)]
    /\ gsnap' = NoSnap
    /\ UNCHANGED <<heap, mp, m, alg, it, panicked, abs, nan, itg>>

\* hashmapNewIterator: a zeroed iterator for a new range loop.
NewIterator ==
    /\ Running
    /\ it # ZeroIterator
    /\ it' = ZeroIterator
    /\ itg' = ZeroItg
    /\ UNCHANGED <<heap, mp, m, alg, panicked, nops, last, gsnap, abs, nan>>

\* What one hashmapNext call that returned r does to the iteration record.
ItgAfterNext(r) ==
    LET g0 == IF itg.active THEN itg
              ELSE [itg EXCEPT !.active = TRUE, !.start = LiveKeys, !.startNan = nan]
    IN  IF mp = NULL THEN itg
        ELSE IF r.ok THEN [g0 EXCEPT !.yielded = Append(@, <<r.key, r.value>>)]
        ELSE [g0 EXCEPT !.done = TRUE]

\* One step of a range loop: hashmapNext with the current iterator.
Next1 ==
    /\ Running
    /\ ~itg.done
    /\ LET r == hashmapNext(heap, mp, m, it, 0, 0)
       IN  /\ it' = r.it
           /\ itg' = ItgAfterNext(r)
    /\ UNCHANGED <<heap, mp, m, alg, panicked, nops, last, gsnap, abs, nan>>

\* hashmapNext as one of the counted public calls.
NextCall ==
    /\ Running
    /\ nops < MaxOps
    /\ nops' = nops + 1
    /\ LET r == hashmapNext(heap, mp, m, it, 0, 0)
       IN  /\ it' = r.it
           /\ itg' = ItgAfterNext(r)
           /\ last' = [NoLast EXCEPT !.op = "next", !.key = r.key, !.out = r.value,
                                     !.ok = r.ok, !.nil = (mp = NULL)]
    /\ gsnap' = NoSnap
    /\ UNCHANGED <<heap, mp, m, alg, panicked, abs, nan>>

Next ==
    \/ \E hint \in Hints, seed \in Seeds : Make(hint, seed)
    \/ \E key \in Keys, value \in Vals,
          rnd \in (IF WouldGrow THEN Seeds ELSE {0}) : Set(key, value, rnd)
    \/ \E key \in Keys : Delete(key)
    \/ Clear
    \/ \E key \in Keys, vb \in Vals : Get(key, vb)
    \/ Length
    \/ NextCall

Spec == Init /\ [][Next]_vars

\* ------------------------------------------------ a range loop with writes
\* A range loop over a filled table, with up to MaxIterOps writes between
\* the hashmapNext calls.
IterFills ==
    {<<0, 3>>, <<0, LoadNum>>, <<0, LoadNum + 1>>, <<0, SlotsPerBucket>>,
     <<LoadNum + 1, SlotsPerBucket + 1>>}

InitIter ==
    /\ alg \in {hashmapAlgorithmBinary, hashmapAlgorithmInterface}
    /\ it = ZeroIterator
    /\ panicked = NoPanic
    /\ nops = MaxOps - MaxIterOps
    /\ last = NoLast
    /\ gsnap = NoSnap
    /\ itg = ZeroItg
    /\ \E f \in IterFills, seed \in Seeds :
         LET mk == hashmapMake(<<>>, f[1], alg, seed)
             r == Fill(mk.heap, mk.m, 0, f[2], seed)
         IN  /\ mp = 1
             /\ m = r.m
             /\ heap = r.heap
             /\ abs = FillAbs(alg, f[2])
             /\ nan = FillNan(alg, f[2])

NextIter ==
    \/ \E key \in Keys, value \in Vals,
          rnd \in (IF WouldGrow THEN Seeds ELSE {0}) : Set(key, value, rnd)
    \/ \E key \in Keys : Delete(key)
    \/ Clear
    \/ NewIterator
    \/ Next1

SpecIter == InitIter /\ [][NextIter]_vars

\* -------------------------------------- a range loop with several writes
\* A range loop over a table that is about to grow, with up to MaxWriteOps
\* sets and deletes of a few keys between the hashmapNext calls.
WriteKeys == {0, LoadNum, LoadNum + 1}
\* The number of keys filled in: the next set grows the table, or the one
\* after it.
WriteFills == {LoadNum, LoadNum + 1}

InitWrites ==
    /\ alg \in {hashmapAlgorithmBinary, hashmapAlgorithmInterface}
    /\ it = ZeroIterator
    /\ panicked = NoPanic
    /\ nops = MaxOps - MaxWriteOps
    /\ last = NoLast
    /\ gsnap = NoSnap
    /\ itg = ZeroItg
    /\ \E n \in WriteFills, seed \in Seeds :
         LET mk == hashmapMake(<<>>, 0, alg, seed)
             r == Fill(mk.heap, mk.m, 0, n, seed)
         IN  /\ mp = 1
             /\ m = r.m
             /\ heap = r.heap
             /\ abs = FillAbs(alg, n)
             /\ nan = FillNan(alg, n)

NextWrites ==
    \/ \E key \in WriteKeys, value \in Vals,
          rnd \in (IF WouldGrow THEN Seeds ELSE {0}) : Set(key, value, rnd)
    \/ \E key \in WriteKeys : Delete(key)
    \/ Next1

SpecWrites == InitWrites /\ [][NextWrites]_vars

\* ------------------------------------------------------------------ claims
\* What get returns for the key of the last call, whatever the value buffer held.
GetsLast(found, value) ==
    \A vb \in Vals :
        hashmapAlgGet(heap, mp, m, alg, last.key, vb) = [found |-> found, value |-> value]

\* C1: len(t) is the number of distinct keys inserted and not since deleted
\* or cleared.  Keys that are not equal to themselves are pairwise distinct
\* and cannot be deleted, so each insertion of one counts until a clear.
C1_LenCountsLiveKeys ==
    mp # NULL => hashmapLen(mp, m) = Cardinality(LiveKeys) + nan

C1_Witness ==
    /\ mp # NULL
    /\ last.op = "delete"
    /\ last.had
    /\ m.bucketBits = 1
    /\ m.count = SlotsPerBucket - 1

\* C2 as claimed: after set(t, k, v), get(t, k) returns (v, true), for every key.
C2_SetThenGet_AnyKey ==
    (last.op = "set" /\ ~last.nil) => GetsLast(TRUE, last.val)

\* C2 amended: after set(t, k, v) with a key k that is equal to itself,
\* get(t, k) returns (v, true), on each of set's paths.
C2_SetThenGet ==
    (last.op = "set" /\ ~last.nil /\ SelfEqual(alg, last.key)) => GetsLast(TRUE, last.val)

C2_Witness ==
    /\ last.op = "set"
    /\ last.path = "overflow"
    /\ SelfEqual(alg, last.key)
    /\ GetsLast(TRUE, last.val)

\* C3: after delete(t, k), get(t, k) returns found = false and a zeroed value
\* buffer, whether or not k was present.
C3_DeleteThenGet ==
    last.op = "delete" => GetsLast(FALSE, 0)

C3_Witness ==
    /\ last.op = "delete"
    /\ ~last.nil
    /\ last.had
    /\ last.plen = m.count + 1

\* C4 as claimed: a set of the key just set leaves len unchanged and get
\* returns the second value, for every key.
C4_DoubleInsert_AnyKey ==
    (last.op = "set" /\ last.rep) =>
        /\ hashmapLen(mp, m) = last.plen
        /\ GetsLast(TRUE, last.val)

\* C4 amended: a set of the key just set, for a key that is equal to itself,
\* leaves len unchanged and get returns the second value, also when the
\* second set grows the table.
C4_DoubleInsert ==
    (last.op = "set" /\ last.rep /\ SelfEqual(alg, last.key)) =>
        /\ hashmapLen(mp, m) = last.plen
        /\ GetsLast(TRUE, last.val)

C4_Witness ==
    /\ last.op = "set"
    /\ last.rep
    /\ SelfEqual(alg, last.key)
    /\ last.grows = 1

\* C5: hashmapGrow leaves the entries (key, value, multiplicity), count and
\* what get returns for every key exactly as they were.
C5_GrowPreservesContents ==
    gsnap # NoSnap =>
        /\ gsnap.post = gsnap.pre
        /\ gsnap.postCount = gsnap.preCount
        /\ gsnap.postGet = gsnap.preGet

C5_Witness ==
    /\ gsnap # NoSnap
    /\ gsnap.preCount = LoadNum + 1
    /\ m.bucketBits = 1
    /\ \E k \in Keys : gsnap.preGet[k].found /\ gsnap.preGet[k].value # 0

\* C6: on a nil map get zeroes the value buffer and returns false, len
\* returns 0, delete and clear change nothing, next returns false and leaves
\* the iterator as it was, and none of them panics.
C6_NilReads ==
    (last.nil /\ last.op # "set") =>
        /\ panicked = NoPanic
        /\ mp = NULL /\ heap = <<>> /\ m = NoMap
        /\ it = ZeroIterator
        /\ last.op = "get" => (~last.ok /\ last.out = 0)
        /\ last.op = "len" => last.out = 0
        /\ last.op = "next" => ~last.ok

C6_Witness ==
    /\ last.nil
    /\ last.op = "get"
    /\ nops = MaxOps

\* C7: set on a nil map ends in the nil-map panic, for the generic set and
\* for each discipline's set, with nothing created or modified.
C7_NilSetPanics ==
    (last.op = "set" /\ last.nil) =>
        /\ panicked = NilMapPanic
        /\ mp = NULL /\ heap = <<>> /\ m = NoMap

\* C8: a second delete(t, k) changes nothing: heap and header after it are
\* those after the first.
C8_DeleteIdempotent ==
    last.op = "delete" =>
        LET r == hashmapAlgDelete(heap, mp, m, alg, last.key)
        IN  r.heap = heap /\ r.m = m

C8_Witness ==
    /\ last.op = "delete"
    /\ ~last.nil
    /\ last.had
    /\ m.count > 0

\* How many of the yielded pairs have a key of class k.
YieldsOf(k) ==
    Cardinality({i \in 1 .. Len(itg.yielded) :
                    SelfEqual(alg, itg.yielded[i][1]) /\ Norm(alg, itg.yielded[i][1]) = k})

\* How many of the yielded pairs have a key that is not equal to itself.
YieldsNotSelfEqual ==
    Cardinality({i \in 1 .. Len(itg.yielded) : ~SelfEqual(alg, itg.yielded[i][1])})

\* A bucket of the live table has an overflow bucket.
HasOverflow == \E b \in TableBuckets(heap, m) : heap[b].next # NULL

\* C9 as claimed: a range loop with no write between the calls returns true
\* len(t) times, yields every live key once, and each yielded pair is what
\* get returns for its key.
C9_FullIteration_AnyKey ==
    (itg.done /\ ~itg.mutated) =>
        /\ Len(itg.yielded) = hashmapLen(mp, m)
        /\ \A k \in LiveKeys : YieldsOf(k) = 1
        /\ \A i \in 1 .. Len(itg.yielded) :
              hashmapAlgGet(heap, mp, m, alg, itg.yielded[i][1], 0)
                  = [found |-> TRUE, value |-> itg.yielded[i][2]]

\* C9 amended: a range loop with no write between the calls returns true
\* len(t) times and yields every entry once; each key that is equal to
\* itself comes with the value get returns for it (an entry whose key is not
\* equal to itself comes with its stored value, which get never returns).
C9_FullIteration ==
    (itg.done /\ ~itg.mutated) =>
        /\ Len(itg.yielded) = hashmapLen(mp, m)
        /\ \A k \in LiveKeys : YieldsOf(k) = 1
        /\ YieldsNotSelfEqual = nan
        /\ \A i \in 1 .. Len(itg.yielded) :
              SelfEqual(alg, itg.yielded[i][1]) =>
                  hashmapAlgGet(heap, mp, m, alg, itg.yielded[i][1], 0)
                      = [found |-> TRUE, value |-> itg.yielded[i][2]]

C9_Witness ==
    /\ itg.done
    /\ ~itg.mutated
    /\ HasOverflow
    /\ Len(itg.yielded) = SlotsPerBucket + 1

\* C10 as claimed: when the map has grown during a range loop, every key that
\* was in the map at the first call and was not deleted has been yielded
\* exactly once when the loop ends.
C10_GrowthKeepsKeys_AnyKey ==
    (itg.done /\ itg.grew) =>
        /\ \A k \in itg.start \ itg.deleted : YieldsOf(k) = 1
        /\ ~itg.cleared => YieldsNotSelfEqual >= itg.startNan

\* C10 amended: when the map has grown during a range loop, every key that is
\* equal to itself, was in the map at the first call and was not deleted has
\* been yielded exactly once when the loop ends.
C10_GrowthKeepsKeys ==
    (itg.done /\ itg.grew) =>
        \A k \in itg.start \ itg.deleted : YieldsOf(k) = 1

C10_Witness ==
    /\ itg.done
    /\ itg.grew
    /\ 0 < itg.grewAt
    /\ itg.grewAt < Len(itg.yielded)
    /\ Cardinality(itg.start \ itg.deleted) >= LoadNum

\* C11 as claimed: when the map has grown during a range loop, no key that
\* was inserted after the first call, and was not in the map at the first
\* call, has been yielded.
C11_NoInsertedKeyVisited ==
    itg.grew =>
        \A i \in 1 .. Len(itg.yielded) :
            Norm(alg, itg.yielded[i][1]) \notin (itg.inserted \ itg.start)

\* C11 amended: when the map has grown during a range loop, every yielded
\* key was in the map at the first call or was inserted before the map
\* first grew; a key first inserted by the set that grew the map, or later,
\* is not yielded.
C11_NoLateKeyVisited ==
    itg.grew =>
        \A i \in 1 .. Len(itg.yielded) :
            \/ Norm(alg, itg.yielded[i][1]) \in (itg.start \cup itg.early)
            \/ ~SelfEqual(alg, itg.yielded[i][1]) /\ itg.startNan > 0

C11_Witness ==
    /\ itg.done
    /\ itg.grew
    /\ 0 < itg.grewAt
    /\ (itg.inserted \ (itg.start \cup itg.early)) # {}
    /\ Len(itg.yielded) >= LoadNum

\* The pair yielded by the hashmapNext call of this step.
NewYield == itg'.yielded[Len(itg'.yielded)]

\* This step is a hashmapNext call that returned true.
Yields == Len(itg'.yielded) = Len(itg.yielded) + 1

\* C12 as claimed: whenever next returns true with (k, v), get(t, k) on the
\* map as it is then returns (v, true), for every key.
C12_YieldIsCurrent_AnyKey ==
    [][Yields =>
          hashmapAlgGet(heap', mp', m', alg', NewYield[1], 0)
              = [found |-> TRUE, value |-> NewYield[2]]]_vars

\* C12 amended: whenever next returns true with (k, v) and k is equal to
\* itself, get(t, k) on the map as it is then returns (v, true), before and
\* after a growth.
C12_YieldIsCurrent ==
    [][(Yields /\ SelfEqual(alg, NewYield[1])) =>
          hashmapAlgGet(heap', mp', m', alg', NewYield[1], 0)
              = [found |-> TRUE, value |-> NewYield[2]]]_vars

\* After a growth, a key of the initial fill was yielded with a value other
\* than the one it was filled with.
C12_Witness ==
    /\ itg.grew
    /\ \E i \in (itg.grewAt + 1) .. Len(itg.yielded) :
          /\ itg.yielded[i][1] \in itg.start
          /\ itg.yielded[i][1] > NaN
          /\ itg.yielded[i][2] # FillValue(itg.yielded[i][1])

\* C13: next never yields a key that was deleted, or removed by clear, since
\* the first call and is not in the map now, whether or not the map has
\* grown since the first call.
C13_DeletedNotYielded ==
    [][Yields =>
          IF SelfEqual(alg, NewYield[1])
          THEN ~(Norm(alg, NewYield[1]) \in itg.deleted /\ abs[Norm(alg, NewYield[1])] = Absent)
          ELSE ~(itg.cleared /\ nan = 0)]_vars

\* The loop has ended; the map grew during it and then a key of the initial
\* fill that had not been yielded was deleted.
C13_Witness ==
    /\ itg.done
    /\ itg.grew
    /\ last.op = "delete"
    /\ \E k \in itg.start \cap itg.deleted : abs[k] = Absent /\ YieldsOf(k) = 0

\* The table rt has the contents of the map: what get returns for every key,
\* len, and the stored (key, value) pairs with their multiplicities.
SameContents(rt) ==
    /\ Lookup(rt.heap, rt.m) = Lookup(heap, m)
    /\ hashmapLen(1, rt.m) = hashmapLen(mp, m)
    /\ Entries(rt.heap, rt.m) = Entries(heap, m)

\* C14: after any sequence of calls, setting every pair that a full range
\* loop over the map yields into a fresh table gives a table with the same
\* key-to-value mapping, the same len and the same entries.
C14_RoundTrip ==
    mp # NULL => \A seed \in Seeds : SameContents(RoundTrip(heap, m, seed))

\* A key has been deleted from a table of two buckets and a key set; the
\* map holds more entries than a fresh table takes without growing, so that
\* the copy grows.
C14_Witness ==
    /\ mp # NULL
    /\ last.op = "set"
    /\ last.path # "update"
    /\ alg = hashmapAlgorithmBinary
    /\ last.grows = 0
    /\ last.plen = LoadNum + 1
    /\ m.bucketBits = 1
    /\ m.count = SlotsPerBucket
    /\ \A seed \in Seeds : RoundTrip(heap, m, seed).m.bucketBits = 1

\* C15: after every call, count is the number of slots with a non-zero
\* tophash in the primary buckets and their overflow buckets; count is kept
\* in a machine word, so a count below zero would show as a huge one.
C15_CountIsOccupiedSlots ==
    mp # NULL => m.count = Cardinality(OccupiedSlots(heap, m))

\* A delete has emptied a slot of a table that has an overflow bucket.
C15_Witness ==
    /\ mp # NULL
    /\ last.op = "delete"
    /\ last.had
    /\ HasOverflow
    /\ m.count = SlotsPerBucket
    /\ Cardinality(OccupiedSlots(heap, m)) = SlotsPerBucket

\* The index of the primary bucket of key under seed in the map as it is.
HomeIndex(key, seed) == keyHash(m.alg, key, seed) % Pow2(m.bucketBits)

\* C16: after every call, every occupied slot is in a bucket of the chain of
\* the primary bucket whose index is the hash of the slot's key under the
\* current seed, modulo the number of primary buckets; so is the entry
\* written by a set that grew the map.
C16_SlotsOnHomeChain ==
    mp # NULL =>
        \A s \in OccupiedSlots(heap, m) :
            s[1] \in ChainBuckets(heap,
                        hashmapBucketAddr(m.buckets,
                                          HomeIndex(heap[s[1]].keys[s[2] + 1], m.seed)))

\* A set has grown the map and written a new key whose primary bucket under
\* the new seed is not the one its hash under the old seed points to.
C16_Witness ==
    /\ last.op = "set"
    /\ last.grows = 1
    /\ last.path # "update"
    /\ gsnap # NoSnap
    /\ HomeIndex(last.key, gsnap.preSeed) # HomeIndex(last.key, m.seed)

\* The high byte of the 32-bit hash of key under seed.
HighByte(key, seed) == keyHash(m.alg, key, seed) \div Pow2(TopShift)

\* C17: the tophash stored in an occupied slot is the high byte of the hash
\* of the slot's key under the current seed, or 1 where that byte is 0; it
\* is a byte other than 0.
C17_TopHashOfKey ==
    mp # NULL =>
        \A s \in OccupiedSlots(heap, m) :
            /\ heap[s[1]].tophash[s[2] + 1] \in 1 .. 255
            /\ heap[s[1]].tophash[s[2] + 1] =
                   IF HighByte(heap[s[1]].keys[s[2] + 1], m.seed) = 0 THEN 1
                   ELSE HighByte(heap[s[1]].keys[s[2] + 1], m.seed)

\* A set has grown the map and changed the seed; the map holds a key whose
\* hash has the high byte 0 under the new seed and had another under the
\* old one.
C17_Witness ==
    /\ last.op = "set"
    /\ last.grows = 1
    /\ gsnap # NoSnap
    /\ \E s \in OccupiedSlots(heap, m) :
          /\ HighByte(heap[s[1]].keys[s[2] + 1], m.seed) = 0
          /\ HighByte(heap[s[1]].keys[s[2] + 1], gsnap.preSeed) # 0
          /\ heap[s[1]].tophash[s[2] + 1] = 1

\* The addresses of the buckets of the primary array.
PrimaryBuckets == {hashmapBucketAddr(m.buckets, i) : i \in 0 .. (Pow2(m.bucketBits) - 1)}

\* A walk of at most fuel steps along the next pointers from bucket stays in
\* allocated buckets and reaches nil.
RECURSIVE ChainEnds(_, _)
ChainEnds(bucket, fuel) ==
    IF bucket = NULL THEN TRUE
    ELSE IF fuel = 0 \/ bucket \notin 1 .. Len(heap) THEN FALSE
    ELSE ChainEnds(heap[bucket].next, fuel - 1)

MakeHints ==
    {0, 1, WordMod - 1}
        \cup {LoadNum * Pow2(b) : b \in 0 .. (PtrBits - 3)}
        \cup {LoadNum * Pow2(b) + 1 : b \in 0 .. (PtrBits - 3)}

\* b ends the search of make for hint: the ceiling is reached or hint does
\* not exceed 6 * 2^b.
EndsSearch(b, hint) == ~hashmapHasSpaceToGrow(b) \/ hint <= LoadNum * Pow2(b)

SetStep == nops' = nops + 1 /\ last'.op = "set" /\ ~last'.nil

\* C20: a set grows the map exactly when on entry count > 6 * 2^bucketBits
\* and bucketBits is not over the ceiling, whether its key is in the map or
\* not; it then grows once, bucketBits goes up by 1 and the primary array is
\* a new one; any other set leaves bucketBits, the seed and the primary
\* array as they were.
C20_GrowsExactlyWhenOverLoad ==
    [][SetStep =>
          IF m.count > LoadNum * Pow2(m.bucketBits) /\ m.bucketBits <= PtrBits - 3
          THEN /\ last'.grows = 1
               /\ m'.bucketBits = m.bucketBits + 1
               /\ m'.buckets # m.buckets
               /\ Len(heap') >= Len(heap) + Pow2(m'.bucketBits)
          ELSE /\ last'.grows = 0
               /\ m'.bucketBits = m.bucketBits
               /\ m'.seed = m.seed
               /\ m'.buckets = m.buckets]_vars

\* A set of a key that was in the map has grown the map.
C20_Witness ==
    /\ last.op = "set"
    /\ last.had
    /\ last.path = "update"
    /\ last.grows = 1
    /\ gsnap # NoSnap
    /\ gsnap.preCount = LoadNum + 1
    /\ m.bucketBits = gsnap.preBits + 1
    /\ m.buckets # gsnap.preBuckets

\* ------------------------------------------------ make over all size hints
\* make on a nil map variable, with the size hints around every load limit.
InitMake ==
    /\ alg \in Algs
    /\ it = ZeroIterator
    /\ panicked = NoPanic
    /\ nops = 0
    /\ last = NoLast
    /\ gsnap = NoSnap
    /\ itg = ZeroItg
    /\ mp = NULL
    /\ m = NoMap
    /\ heap = <<>>
    /\ abs = EmptyAbs
    /\ nan = 0

NextMake == \E hint \in MakeHints, seed \in Seeds : Make(hint, seed)

SpecMake == InitMake /\ [][NextMake]_vars

\* C21: in every reachable state bucketBits <= W - 3, whatever size hint
\* make was called with.
C21_BucketBitsAtMostCeiling ==
    mp # NULL => m.bucketBits <= PtrBits - 3

\* This step is a clear on a non-nil map.
ClearStep == nops' = nops + 1 /\ last'.op = "clear" /\ ~last'.nil

\* C22: clear on a non-nil map sets count to 0 and zeroes the tophash, key
\* and value cells of every primary and overflow bucket, so that get
\* returns (zero, false) for every key; bucketBits, the primary array, the
\* seed and every next pointer are as before, and nothing is allocated.
C22_ClearEmptiesAndKeepsCapacity ==
    [][ClearStep =>
          /\ m'.count = 0
          /\ \A b \in TableBuckets(heap', m') :
                /\ heap'[b].tophash = ZeroCells
                /\ heap'[b].keys = ZeroCells
                /\ heap'[b].values = ZeroCells
          /\ \A k \in Keys : Lookup(heap', m')[k] = [found |-> FALSE, value |-> 0]
          /\ m'.bucketBits = m.bucketBits
          /\ m'.buckets = m.buckets
          /\ m'.seed = m.seed
          /\ Len(heap') = Len(heap)
          /\ \A b \in 1 .. Len(heap) : heap'[b].next = heap[b].next
          /\ TableBuckets(heap', m') = TableBuckets(heap, m)]_vars

\* A clear has emptied a table that has an overflow bucket.
C22_Witness ==
    /\ last.op = "clear"
    /\ ~last.nil
    /\ last.plen = SlotsPerBucket + 1
    /\ HasOverflow
    /\ m.count = 0

\* This step is a delete on a non-nil map.
DeleteStep == nops' = nops + 1 /\ last'.op = "delete" /\ ~last'.nil

\* The occupied slots of the map whose key is equal to key.
SlotsOf(key) ==
    {s \in OccupiedSlots(heap, m) : keyEqual(alg, key, heap[s[1]].keys[s[2] + 1])}

\* C23: a delete of a key that is in the map zeroes the tophash, key and
\* value of the one slot that holds it and takes 1 off count, and changes
\* nothing else in the heap or the header; a delete of a key that is not in
\* the map changes nothing.
C23_DeleteOneSlot ==
    [][DeleteStep =>
          IF SlotsOf(last'.key) # {}
          THEN \E s \in SlotsOf(last'.key) :
                  /\ heap' = [heap EXCEPT ![s[1]].tophash[s[2] + 1] = 0,
                                          ![s[1]].keys[s[2] + 1] = 0,
                                          ![s[1]].values[s[2] + 1] = 0]
                  /\ m' = [m EXCEPT !.count = m.count - 1]
          ELSE heap' = heap /\ m' = m]_vars

\* A delete has freed the slot of a key in a table of two primary buckets.
C23_Witness ==
    /\ last.op = "delete"
    /\ ~last.nil
    /\ last.had
    /\ m.bucketBits = 1
    /\ m.count = last.plen - 1
    /\ SlotsOf(last.key) = {}

\* The number of buckets on the chain of primary bucket i of table hm in h.
ChainLength(h, hm, i) == Cardinality(ChainBuckets(h, hashmapBucketAddr(hm.buckets, i)))

\* C24: a delete leaves bucketBits, the seed, the primary array, the number
\* of allocated buckets, every next pointer and the length of every chain
\* as they were.
C24_DeleteKeepsCapacity ==
    [][DeleteStep =>
          /\ m'.bucketBits = m.bucketBits
          /\ m'.seed = m.seed
          /\ m'.buckets = m.buckets
          /\ Len(heap') = Len(heap)
          /\ \A b \in 1 .. Len(heap) : heap'[b].next = heap[b].next
          /\ \A i \in 0 .. (Pow2(m.bucketBits) - 1) :
                ChainLength(heap', m', i) = ChainLength(heap, m, i)]_vars

\* A delete has emptied an overflow bucket, which is still on its chain.
C24_Witness ==
    /\ last.op = "delete"
    /\ last.had
    /\ \E b \in TableBuckets(heap, m) :
          /\ heap[b].next # NULL
          /\ heap[heap[b].next].tophash = ZeroCells

\* The buckets of the chain that starts at bucket, in chain order.
RECURSIVE ChainSeq(_, _)
ChainSeq(h, bucket) ==
    IF bucket = NULL THEN <<>> ELSE <<bucket>> \o ChainSeq(h, h[bucket].next)

\* <<chain position, slot index>> of the empty slots of the chain cs.
EmptyIn(h, cs) ==
    {e \in (1 .. Len(cs)) \X Slots : h[cs[e[1]]].tophash[e[2] + 1] = 0}

\* e comes before f in (chain position, slot index) order, or is f.
Before(e, f) == e[1] < f[1] \/ (e[1] = f[1] /\ e[2] <= f[2])

\* The tophash of key under seed.
TagOf(key, seed) == IF HighByte(key, seed) = 0 THEN 1 ELSE HighByte(key, seed)

\* The home chain of key in the map as it is.
HomeChain(key) == ChainSeq(heap, hashmapBucketAddr(m.buckets, HomeIndex(key, m.seed)))

\* The heap after key, value has been written into slot e of the chain cs.
WrittenAt(cs, e, key, value) ==
    [heap EXCEPT ![cs[e[1]]].tophash[e[2] + 1] = TagOf(key, m.seed),
                 ![cs[e[1]]].keys[e[2] + 1] = key,
                 ![cs[e[1]]].values[e[2] + 1] = value]

\* The heap after key, value has been written into slot 0 of a new bucket
\* linked behind the last bucket of the chain cs.
WrittenBehind(cs, key, value) ==
    [heap \o <<[ZeroBucket EXCEPT !.tophash[1] = TagOf(key, m.seed),
                                  !.keys[1] = key,
                                  !.values[1] = value]>>
        EXCEPT ![cs[Len(cs)]].next = Len(heap) + 1]

\* The home chain of key in the table hm in h.
HomeChainIn(h, hm, key) ==
    ChainSeq(h, hashmapBucketAddr(hm.buckets,
                                  keyHash(hm.alg, key, hm.seed) % Pow2(hm.bucketBits)))

\* Slot e of the chain cs in h holds key and value, and every slot before it
\* in (chain position, slot index) order is occupied.
FirstEmptyTaken(h, cs, e, key, value) ==
    /\ h[cs[e[1]]].tophash[e[2] + 1] # 0
    /\ h[cs[e[1]]].keys[e[2] + 1] = key
    /\ h[cs[e[1]]].values[e[2] + 1] = value
    /\ \A f \in (1 .. Len(cs)) \X Slots :
          (Before(f, e) /\ f # e) => h[cs[f[1]]].tophash[f[2] + 1] # 0

\* C25: a set of a key that is not in the map writes the entry into the
\* first empty slot of the key's home chain in (chain position, slot index)
\* order and allocates nothing; when the chain has no empty slot it writes
\* the entry into slot 0 of one new bucket linked behind the chain's last
\* bucket.  On a map that does not grow, count goes up by 1 and nothing else
\* changes; on a map that grows, the home chain is that of the new table.
C25_FirstEmptySlot ==
    [][(SetStep /\ SlotsOf(last'.key) = {}) =>
          IF last'.grows = 0
          THEN /\ m' = [m EXCEPT !.count = m.count + 1]
               /\ IF EmptyIn(heap, HomeChain(last'.key)) # {}
                  THEN \E e \in EmptyIn(heap, HomeChain(last'.key)) :
                          /\ \A f \in EmptyIn(heap, HomeChain(last'.key)) : Before(e, f)
                          /\ heap' = WrittenAt(HomeChain(last'.key), e, last'.key, last'.val)
                  ELSE heap' = WrittenBehind(HomeChain(last'.key), last'.key, last'.val)
          ELSE /\ m'.count = m.count + 1
               /\ \E e \in (1 .. Len(HomeChainIn(heap', m', last'.key))) \X Slots :
                     FirstEmptyTaken(heap', HomeChainIn(heap', m', last'.key), e,
                                     last'.key, last'.val)]_vars

\* A set has written a new key into slot 0 of a primary bucket, a slot freed
\* by a delete: the slot after it is occupied.
C25_Witness ==
    /\ last.op = "set"
    /\ last.path = "empty"
    /\ last.grows = 0
    /\ last.key = SlotsPerBucket
    /\ \E b \in PrimaryBuckets :
          /\ heap[b].tophash[1] # 0
          /\ heap[b].keys[1] = last.key
          /\ heap[b].tophash[2] # 0

\* The float bit patterns a part of a complex key is drawn from.
FloatParts == {PosZero, NegZero, NaN + 1}

\* x with the bit pattern of -0 replaced by that of +0.
NoNegZero(x) == IF x = NegZero THEN PosZero ELSE x

\* C26: under the Interface discipline -0 and +0 have the same hash under
\* every seed, as a float key and as a part of a complex key, and after a
\* set with key -0, get with key +0 returns the value set and true.
C26_NegZeroIsZero ==
    /\ \A seed \in Seeds :
          /\ hashmapInterfaceHash(NegZero, seed) = hashmapInterfaceHash(PosZero, seed)
          /\ \A re \in FloatParts, im \in FloatParts :
                hashmapComplexHash(re, im, seed)
                    = hashmapComplexHash(NoNegZero(re), NoNegZero(im), seed)
    /\ (alg = hashmapAlgorithmInterface /\ last.op = "set" /\ ~last.nil
            /\ last.key = NegZero) =>
          \A vb \in Vals :
              hashmapAlgGet(heap, mp, m, alg, PosZero, vb)
                  = [found |-> TRUE, value |-> last.val]

\* A set has inserted -0 with a non-zero value into an Interface map that
\* did not hold it.
C26_Witness ==
    /\ alg = hashmapAlgorithmInterface
    /\ last.op = "set"
    /\ ~last.nil
    /\ last.key = NegZero
    /\ ~last.had
    /\ last.val = NVals - 1
    /\ hashmapAlgGet(heap, mp, m, alg, PosZero, 0) = [found |-> TRUE, value |-> last.val]

\* ---------------------------------------------------------------- C27
\* The interface operations called with boxed keys of every kind, on a map
\* that exists.
InitKinds ==
    /\ Init
    /\ alg = hashmapAlgorithmInterface
    /\ mp # NULL

\* The sequences of at most n members of S.
SeqsUpTo(S, n) == UNION {[1..k -> S] : k \in 0..n}

\* The elements a composite key is built from, and the boxed keys the
\* operations are called with: a scalar of every kind, the nil interface,
\* and arrays and structs nested twice.
NestLeaves == {Scalar(k) : k \in {"Int", "Slice"}}
Nested1 == {Composite(k, es) : k \in CompositeKinds, es \in SeqsUpTo(NestLeaves, MaxFields)}
Nested2 ==
    {Composite(k, es) : k \in CompositeKinds,
                        es \in SeqsUpTo(NestLeaves \cup Nested1, MaxFields)}
BoxedKeys == {Scalar(k) : k \in ScalarKinds \cup {"Nil"}} \cup Nested2

\* What the call of hashmapInterfaceHash that returned hash leaves in the
\* state: the program has ended in runtimePanic, or the operation goes on
\* into hashmapSet, hashmapGet or hashmapDelete with the hash.
HashReturned(hash, op, x) ==
    /\ panicked' = IF hash = HashPanic THEN UncomparablePanic ELSE panicked
    /\ last' = [NoLast EXCEPT !.op = "hash", !.path = op, !.boxed = x,
                              !.ok = (hash # HashPanic),
                              !.out = IF hash = HashPanic THEN 0 ELSE hash]

\* hash := hashmapInterfaceHash(key, m.seed), the step of
\* hashmapInterfaceSet, hashmapInterfaceGet and hashmapInterfaceDelete that
\* follows the nil check.
InterfaceHash(op, x) ==
    /\ Running
    /\ nops < MaxHashOps
    /\ mp # NULL
    /\ alg = hashmapAlgorithmInterface
    /\ nops' = nops + 1
    /\ HashReturned(hashmapInterfaceHashValue(x, m.seed), op, x)
    /\ gsnap' = NoSnap
    /\ UNCHANGED <<heap, mp, m, alg, it, abs, nan, itg>>

NextKinds == \E op \in {"set", "get", "delete"}, x \in BoxedKeys : InterfaceHash(op, x)

SpecKinds == InitKinds /\ [][NextKinds]_vars

\* The key, or an element or field reached from it, has a kind other than
\* the ones the hash knows.
RECURSIVE HasOtherKind(_)
HasOtherKind(x) ==
    \/ x.kind \in OtherKinds
    \/ \E i \in 1..Len(x.elems) : HasOtherKind(x.elems[i])

HashStep == nops' = nops + 1 /\ last'.op = "hash"

\* C27: an interface set, get or delete whose key has, at any depth, a kind
\* outside the ones the hash knows ends in the fatal error "comparing
\* un-comparable type", and leaves the table as it was.
C27_UncomparablePanics ==
    [][HashStep /\ HasOtherKind(last'.boxed) =>
          /\ panicked' = UncomparablePanic
          /\ heap' = heap
          /\ m' = m
          /\ mp' = mp]_vars

\* A set on a table with entries failed on a struct with an array field
\* that holds a slice.
C27_Witness ==
    /\ last.op = "hash"
    /\ last.path = "set"
    /\ panicked = UncomparablePanic
    /\ m.count > 0
    /\ last.boxed.kind = "Struct"
    /\ Len(last.boxed.elems) = MaxFields
    /\ last.boxed.elems[1].kind = "Int"
    /\ last.boxed.elems[2].kind = "Array"
    /\ Len(last.boxed.elems[2].elems) = 1
    /\ last.boxed.elems[2].elems[1].kind = "Slice"

\* ---------------------------------------------------------------- C28
KeyAt(s) == heap[s[1]].keys[s[2] + 1]

\* C28: no two occupied slots of the table, in primary or overflow buckets
\* of any chain, hold keys that the table's equality takes for equal.
C28_NoEqualKeys ==
    mp # NULL =>
        \A s \in OccupiedSlots(heap, m), t \in OccupiedSlots(heap, m) :
            s # t => ~keyEqual(alg, KeyAt(s), KeyAt(t))

\* A set of -0.0 has found the slot of +0.0 in an Interface table of
\* LoadNum entries, and left one slot for the two.
C28_Witness ==
    /\ mp # NULL
    /\ alg = hashmapAlgorithmInterface
    /\ last.op = "set"
    /\ last.key = NegZero
    /\ last.path = "update"
    /\ m.count >= LoadNum
    /\ Cardinality({s \in OccupiedSlots(heap, m) : KeyAt(s) \in {PosZero, NegZero}}) = 1

\* ---------------------------------------------------------------- C29
\* A set on a map that exists, or a delete on any map.
WriteStep ==
    /\ nops' = nops + 1
    /\ \/ last'.op = "set" /\ ~last'.nil
       \/ last'.op = "delete"

\* C29: a set or a delete of key k leaves what get returns for every key
\* that is not equal to k as it was, whether or not the set grew the table
\* or allocated an overflow bucket.
C29_OtherKeysKept ==
    [][WriteStep =>
          \A k2 \in Keys, vb \in Vals :
              ~keyEqual(alg, last'.key, k2) =>
                  hashmapAlgGet(heap', mp', m', alg, k2, vb)
                      = hashmapAlgGet(heap, mp, m, alg, k2, vb)]_vars

\* A set of a new key has grown a table, under a new seed, whose other
\* keys are still found.
C29_Witness ==
    /\ last.op = "set"
    /\ ~last.nil
    /\ last.grows = 1
    /\ ~last.had
    /\ gsnap # NoSnap
    /\ gsnap.preSeed # m.seed
    /\ m.count > LoadNum + 1
    /\ \E k2 \in Keys :
          /\ k2 # last.key
          /\ hashmapAlgGet(heap, mp, m, alg, k2, 0).found

\* ---------------------------------------------------------------- C30
\* The slots of the table, occupied or not.
TableSlots == TableBuckets(heap, m) \X Slots

\* C30: in every bucket reachable from the header, a slot whose tophash is 0
\* has a zero key cell and a zero value cell.
C30_FreeSlotsZeroed ==
    mp # NULL =>
        \A s \in TableSlots :
            heap[s[1]].tophash[s[2] + 1] = 0 =>
                /\ heap[s[1]].keys[s[2] + 1] = 0
                /\ heap[s[1]].values[s[2] + 1] = 0

\* A delete of a key with non-zero bytes has left a zeroed slot in front of
\* an occupied one of the same bucket.
C30_Witness ==
    /\ mp # NULL
    /\ last.op = "delete"
    /\ last.had
    /\ last.key # 0
    /\ \E b \in TableBuckets(heap, m), i \in Slots, j \in Slots :
          /\ i < j
          /\ heap[b].tophash[i + 1] = 0
          /\ heap[b].keys[i + 1] = 0
          /\ heap[b].values[i + 1] = 0
          /\ heap[b].tophash[j + 1] # 0

\* ---------------------------------------------------------------- C31
\* The load of the table is at most one entry over the maximum.
LoadBounded(hm) == hm.count <= LoadNum * Pow2(hm.bucketBits) + 1

\* C31: a set grows the table at most once, none of the sets that
\* hashmapGrow makes grows the new table again, so bucketBits goes up by at
\* most 1; and below the ceiling count <= 6 * 2^bucketBits + 1 holds in every
\* state.
C31_GrowsAtMostOnce ==
    /\ [](mp # NULL /\ hashmapHasSpaceToGrow(m.bucketBits) => LoadBounded(m))
    /\ [][SetStep =>
             /\ last'.grows <= 1
             /\ m'.bucketBits <= m.bucketBits + 1
             /\ (last'.grows = 1 => m'.bucketBits = m.bucketBits + 1)]_vars

\* A set of a new key has doubled a table that was one entry over the
\* maximum load, and the table is again one entry over its new maximum:
\* the sets made by hashmapGrow ran with a count under the new maximum.
C31_Witness ==
    /\ last.op = "set"
    /\ ~last.nil
    /\ last.grows = 1
    /\ gsnap # NoSnap
    /\ gsnap.preCount = LoadNum * Pow2(gsnap.preBits) + 1
    /\ gsnap.postCount = gsnap.preCount
    /\ m.bucketBits = gsnap.preBits + 1
    /\ m.count = gsnap.preCount + 1

\* ---------------------------------------------------------------- C32
\* A get, a len or a hashmapNext call.
ReadStep == nops' = nops + 1 /\ last'.op \in {"get", "len", "next"}

\* C32: get, len and next leave the header (count, seed, bucketBits, the
\* primary array) and every bucket (links, tophash, keys, values) as they
\* were; get and len leave the iterator as it was too.
C32_ReadsChangeNothing ==
    [][ReadStep =>
          /\ heap' = heap
          /\ m' = m
          /\ mp' = mp
          /\ alg' = alg
          /\ (last'.op # "next" => it' = it)]_vars

\* A get has found a key with a non-zero value, in a table of at least
\* LoadNum entries, after a hashmapNext call that yielded an entry and moved
\* the iterator.
C32_Witness ==
    /\ last.op = "get"
    /\ last.ok
    /\ last.out # 0
    /\ nops = MaxOps
    /\ Len(itg.yielded) = 1
    /\ it # ZeroIterator
    /\ m.count >= LoadNum

\* ---------------------------------------------------------------- C33
\* A range loop over a table of 2 entries, or of one entry over the maximum
\* load, with up to MaxRevisitOps sets and deletes of an old and a new key
\* between the hashmapNext calls.
RevisitKeys == {0, LoadNum + 1}
RevisitFills == {2, LoadNum + 1}

InitRevisit ==
    /\ alg \in {hashmapAlgorithmBinary, hashmapAlgorithmInterface}
    /\ it = ZeroIterator
    /\ panicked = NoPanic
    /\ nops = MaxOps - MaxRevisitOps
    /\ last = NoLast
    /\ gsnap = NoSnap
    /\ itg = ZeroItg
    /\ \E n \in RevisitFills, seed \in Seeds :
         LET mk == hashmapMake(<<>>, 0, alg, seed)
             r == Fill(mk.heap, mk.m, 0, n, seed)
         IN  /\ mp = 1
             /\ m = r.m
             /\ heap = r.heap
             /\ abs = FillAbs(alg, n)
             /\ nan = FillNan(alg, n)

NextRevisit ==
    \/ \E key \in RevisitKeys, value \in Vals,
          rnd \in (IF WouldGrow THEN Seeds ELSE {0}) : Set(key, value, rnd)
    \/ \E key \in RevisitKeys : Delete(key)
    \/ Next1

SpecRevisit == InitRevisit /\ [][NextRevisit]_vars

\* C33 as claimed: within one range loop no key is yielded twice, whatever
\* sets and deletes are made between the hashmapNext calls.
C33_NoKeyTwice == \A k \in Keys : YieldsOf(k) <= 1

\* C33 amended: within one range loop a key is yielded twice only if it was
\* deleted and inserted again during the loop; every other key is yielded at
\* most once, with or without a growth between the calls.
C33_NoKeyTwiceUnlessReinserted ==
    \A k \in Keys : YieldsOf(k) > 1 => k \in (itg.deleted \cap itg.inserted)

\* A range loop has ended after the table grew and after a key was deleted
\* and inserted again, and has yielded that key once.
C33_Witness ==
    /\ itg.done
    /\ itg.grew
    /\ \E k \in itg.deleted \cap itg.inserted : YieldsOf(k) = 1
    /\ Len(itg.yielded) >= LoadNum

\* ---------------------------------------------------------------- C34
\* Tables made with size hints up to the largest one, and sets on them.
NextLoad ==
    \/ \E hint \in MakeHints, seed \in Seeds : Make(hint, seed)
    \/ \E rnd \in (IF WouldGrow THEN Seeds ELSE {0}) : Set(0, NVals - 1, rnd)

SpecLoad == InitMake /\ [][NextLoad]_vars

\* hashmapHasSpaceToGrow(b) && hashmapOverLoadFactor(n, b) computes the
\* threshold 6 << b only when the left operand is true.
ThresholdEvaluated(b) == hashmapHasSpaceToGrow(b)

\* 6 << b as a number is below 2^W: the shift loses no bit.
ThresholdFits(b) == LoadNum * Pow2(b) < WordMod

\* The threshold, where it is computed for b, is computed below the ceiling
\* and without wrapping.
ThresholdSafe(b) == ThresholdEvaluated(b) => b <= PtrBits - 3 /\ ThresholdFits(b)

MakeStep == last'.op = "make" /\ mp = NULL /\ mp' # NULL

\* C34: the loop of make tests bucketBits 0, 1, ... up to the one it returns,
\* and a set tests the bucketBits of the table on entry and, when it grows,
\* those of the grown table in the sets of hashmapGrow; each time 6 << b is
\* computed, b <= W - 3 and the product is below 2^W, and one step past the
\* ceiling it is not computed.
C34_ThresholdNeverWraps ==
    /\ []( ~ThresholdEvaluated(PtrBits - 2) )
    /\ [][/\ MakeStep => \A b \in 0 .. m'.bucketBits : ThresholdSafe(b)
          /\ SetStep =>
                /\ ThresholdSafe(m.bucketBits)
                /\ (last'.grows > 0 => ThresholdSafe(m'.bucketBits))]_vars

\* A set has tested the load of a table at the ceiling, made with the
\* largest size hint that 6 << (W - 3) is not below.
C34_Witness ==
    /\ last.op = "set"
    /\ ~last.nil
    /\ m.bucketBits = PtrBits - 3
    /\ m.count = 1
    /\ hashmapOverLoadFactor(LoadNum * Pow2(PtrBits - 3) + 1, m.bucketBits)
    /\ ~hashmapOverLoadFactor(LoadNum * Pow2(PtrBits - 3), m.bucketBits)

====
